---- MODULE Spec2Model ----
(***************************************************************************)
(* SecureVault web client: the file-preview modals (object-URL lifecycle,  *)
(* abortable fetch, stale-response suppression) and the upload button      *)
(* (per-file upload tasks, follow-up move into the destination folder).    *)
(*                                                                         *)
(* Spec       one preview-modal instance, of one of three components:      *)
(*            PreviewModal, PublicPreviewModal, PublicFolderPreviewModal.  *)
(* SpecUpload one UploadButton instance.                                   *)
(*                                                                         *)
(* React is modelled as the components use it: a render in which a         *)
(* dependency of an effect has changed runs the previous effect's cleanup  *)
(* and then the effect, in one step; the part of an async function up to   *)
(* its first await runs inside the step that calls it; each resumption     *)
(* after an await is a step of its own, and the render that a state change *)
(* made in a resumption or in an effect brings about is a later step.      *)
(***************************************************************************)
EXTENDS Integers, Sequences, FiniteSets, TLC

\* Number of preview fetches the parent of one modal instance may cause in a run.
MaxFetches == 2

\* Number of fetches, hence of object URLs, in a run: each fetch the parent
\* causes may be followed by one that the modal issues by itself.
MaxUrls == 2 * MaxFetches

\* ------------------------------------------------------------------------
\* Values

Null == 0          \* a ref or state holding null
Detached == -1     \* an AbortController to which no fetch was attached
NoCleanup == -2    \* an effect run that returned no cleanup function

NoFile == [id |-> "none"]
NoToken == "none"
NoShare == [token |-> "none", is_active |-> FALSE]

TextMaxBytes == 500000
VideoMaxBytes == 100000000
PdfMaxBytes == 50000000

ErrAuth == "Authentication required for file preview"
ErrNoShare == "No share token available for public file"
ErrTextLarge == "Text file too large for preview (max 500KB)"
ErrVideoLarge == "Video file too large for preview (max 100MB)"
ErrPdfLarge == "PDF file too large for preview (max 50MB)"
ErrTimeout == "Request timeout - large files may take longer to load"
ErrStatus == "Failed to load preview: status"
ErrNetwork == "network error"
ErrImage == "Failed to display image"
ErrVideo == "Failed to display video"
NoError == "none"

\* A MIME type "t/s" is the pair <<t, s>>: startsWith('t/') is a test of the
\* first component, equality a test of both.
Mime(t, s) == [type |-> t, subtype |-> s]

\* file.download_url of a descriptor that carries a presigned URL, and of one
\* that carries none.
PresignedUrl == "download_url"
NoUrl == "none"

\* The file descriptors the parent may pass as the `file` prop.
Catalog ==
  { [id |-> "a", mime_type |-> Mime("image", "png"), size_bytes |-> 1000,
     share_link |-> [token |-> "s1", is_active |-> TRUE], download_url |-> NoUrl],
    [id |-> "b", mime_type |-> Mime("application", "pdf"), size_bytes |-> 10000000,
     share_link |-> [token |-> "s2", is_active |-> FALSE],
     download_url |-> PresignedUrl],
    [id |-> "c", mime_type |-> Mime("text", "plain"), size_bytes |-> 600000,
     share_link |-> NoShare, download_url |-> NoUrl],
    [id |-> "d", mime_type |-> Mime("application", "zip"), size_bytes |-> 2000,
     share_link |-> NoShare, download_url |-> NoUrl] }

Components == {"PreviewModal", "PublicPreviewModal", "PublicFolderPreviewModal"}

VARIABLES
  component,        \* which modal this instance is
  mounted,          \* the instance is mounted
  file, isOpen, token, isPublic,          \* props (token: useAuth())
  loading, previewUrl, error,             \* useState
  currentBlobUrl, currentFileId, abortController, loadingRef, previewUrlRef, \* useRef
  fetches,          \* the fetches issued so far, in order; one AbortSignal each
  created,          \* object URLs created (URL k is made from fetch k's blob)
  revocations,      \* URL.revokeObjectURL calls per object URL
  lastRequest,      \* endpoint and Authorization header of the latest fetch()
  cleanupUrl,       \* PublicFilePage: the previewUrl captured by the cleanup of
                    \* the preview effect's latest run
  downloads,        \* the download handler invocations, in order
  depPreviewUrl     \* PublicFolderPreviewModal: the previewUrl of the render in
                    \* which the preview effect last ran (its dependency)

pvars == <<component, mounted, file, isOpen, token, isPublic, loading, previewUrl,
           error, currentBlobUrl, currentFileId, abortController, loadingRef,
           previewUrlRef, fetches, created, revocations, lastRequest, cleanupUrl,
           downloads, depPreviewUrl>>

\* State of one UploadButton instance.
VARIABLES
  uploads,        \* useState<UploadProgressItem[]>
  tasks,          \* the uploadFile invocations, in order; task k has uploadId k
  buttonMounted,  \* the instance is mounted
  boundary        \* length of the multipart boundary of the runtime's FormData

\* What no callback of an upload task changes.
uenv == <<buttonMounted, boundary>>

uvars == <<uploads, tasks, buttonMounted, boundary>>

vars == <<pvars, uvars>>

\* ------------------------------------------------------------------------
\* The instance's mutable state as one record, threaded through the code.

Cur ==
  [ loading |-> loading, previewUrl |-> previewUrl, error |-> error,
    currentBlobUrl |-> currentBlobUrl, currentFileId |-> currentFileId,
    abortController |-> abortController, loadingRef |-> loadingRef,
    previewUrlRef |-> previewUrlRef, fetches |-> fetches,
    created |-> created, revocations |-> revocations, lastRequest |-> lastRequest ]

Commit(s) ==
  /\ loading' = s.loading
  /\ previewUrl' = s.previewUrl
  /\ error' = s.error
  /\ currentBlobUrl' = s.currentBlobUrl
  /\ currentFileId' = s.currentFileId
  /\ abortController' = s.abortController
  /\ loadingRef' = s.loadingRef
  /\ previewUrlRef' = s.previewUrlRef
  /\ fetches' = s.fetches
  /\ created' = s.created
  /\ revocations' = s.revocations
  /\ lastRequest' = s.lastRequest

\* useState setters: a no-op once the component is unmounted.
setLoading(s, m, v) == IF m THEN [s EXCEPT !.loading = v] ELSE s
setPreviewUrl(s, m, v) == IF m THEN [s EXCEPT !.previewUrl = v] ELSE s
setError(s, m, v) == IF m THEN [s EXCEPT !.error = v] ELSE s

\* URL.revokeObjectURL(u)
revokeObjectURL(s, u) == [s EXCEPT !.revocations[u] = @ + 1]

\* URL.createObjectURL(blob of fetch r)
createObjectURL(s, r) == [s EXCEPT !.created = @ \cup {r}]

\* Mutant of abort: the controller is never told to abort.
abortNothing(s, c) == s

\* controller.abort(): the signal of the attached fetch becomes aborted.
abort(s, c) ==
  IF c \in 1..Len(s.fetches) THEN [s EXCEPT !.fetches[c].aborted = TRUE] ELSE s


\* ------------------------------------------------------------------------
\* loadFilePreview: the synchronous part, run inside the effect

isImageFile(f) == f.mime_type.type = "image"

isTextFile(f) ==
  \/ f.mime_type.type = "text"
  \/ f.mime_type = Mime("application", "json")
  \/ f.mime_type = Mime("application", "javascript")
  \/ f.mime_type = Mime("text", "csv")

isPDFFile(f) == f.mime_type = Mime("application", "pdf")

isVideoFile(f) == f.mime_type.type = "video" \/ f.mime_type = Mime("video", "mp4")

Previewable(f) == isImageFile(f) \/ isTextFile(f) \/ isPDFFile(f) \/ isVideoFile(f)

\* The refs that only PreviewModal and PublicPreviewModal have.
setLoadingRef(s, comp, v) ==
  IF comp = "PublicFolderPreviewModal" THEN s ELSE [s EXCEPT !.loadingRef = v]
setPreviewUrlRef(s, comp, v) ==
  IF comp = "PublicFolderPreviewModal" THEN s ELSE [s EXCEPT !.previewUrlRef = v]

\* The error thrown before any fetch is issued, or NoError.
PreFetchError(p, comp) ==
  LET f == p.file IN
  IF comp = "PreviewModal" /\ p.token = NoToken /\ ~p.isPublic THEN ErrAuth
  ELSE IF comp = "PublicPreviewModal" /\ f.share_link.token = "none" THEN ErrNoShare
  ELSE IF isTextFile(f) /\ f.size_bytes > TextMaxBytes THEN ErrTextLarge
  ELSE IF isVideoFile(f) /\ f.size_bytes > VideoMaxBytes THEN ErrVideoLarge
  ELSE IF isPDFFile(f) /\ f.size_bytes > PdfMaxBytes THEN ErrPdfLarge
  ELSE NoError

hasPublicToken(f) == f.share_link.token # "none" /\ f.share_link.is_active

\* Mutant of FetchRequest: the bearer credential is attached to every request.
FetchRequestAlwaysBearer(p, comp) ==
  [ endpoint |-> IF comp = "PublicFolderPreviewModal" THEN PresignedUrl
                 ELSE IF comp = "PublicPreviewModal"
                 THEN (IF p.file.download_url # NoUrl THEN PresignedUrl
                       ELSE "/p/{shareToken}")
                 ELSE IF hasPublicToken(p.file)
                 THEN "/p/{shareToken}" ELSE "/files/{id}/download",
    authorization |-> "jwt" ]

\* The request passed to fetch(): endpoint and Authorization header.
FetchRequest(p, comp) ==
  LET f == p.file IN
  IF comp = "PreviewModal" THEN
    [ endpoint |-> IF hasPublicToken(f) THEN "/p/{shareToken}" ELSE "/files/{id}/download",
      authorization |-> IF p.isPublic \/ hasPublicToken(f) THEN NoToken ELSE p.token ]
  ELSE IF comp = "PublicPreviewModal" THEN
    \* (file as any).download_url || `${restBaseUrl}/p/${file.share_link.token}`
    [ endpoint |-> IF f.download_url # NoUrl THEN PresignedUrl ELSE "/p/{shareToken}",
      authorization |-> NoToken ]
  ELSE
    \* fetch(file.download_url)
    [ endpoint |-> PresignedUrl, authorization |-> NoToken ]

\* Mutant of CatchBlock: the catch block does not look at signal.aborted.
CatchBlockIgnoringAbort(s, m, comp, aborted, err) ==
  setPreviewUrlRef(setPreviewUrl(setError(s, m, err), m, Null), comp, Null)

\* catch (err) { if (signal.aborted) return; setError; setPreviewUrl(null) }
CatchBlock(s, m, comp, aborted, err) ==
  IF aborted THEN s
  ELSE setPreviewUrlRef(setPreviewUrl(setError(s, m, err), m, Null), comp, Null)

\* Mutant of FinallyBlock: the loading flags are left as they are.
FinallyBlockKeepsLoading(s, m, comp, aborted) == s

\* finally { if (!signal.aborted) { setLoading(false); loadingRef = false } }
FinallyBlock(s, m, comp, aborted) ==
  IF aborted THEN s ELSE setLoadingRef(setLoading(s, m, FALSE), comp, FALSE)

\* Mutant of ClosePath: the close branch leaves the loading flags alone.
ClosePathKeepsLoading(s, m, comp) ==
  LET s1 == IF s.currentBlobUrl # Null
            THEN [revokeObjectURL(s, s.currentBlobUrl) EXCEPT !.currentBlobUrl = Null]
            ELSE s
      s2 == IF s1.abortController # Null
            THEN [abort(s1, s1.abortController) EXCEPT !.abortController = Null]
            ELSE s1
      s3 == setPreviewUrlRef(setPreviewUrl(s2, m, Null), comp, Null)
  IN [setError(s3, m, NoError) EXCEPT !.currentFileId = "none"]

\* if (!file || !isOpen) { ... return }
ClosePath(s, m, comp) ==
  LET s1 == IF s.currentBlobUrl # Null
            THEN [revokeObjectURL(s, s.currentBlobUrl) EXCEPT !.currentBlobUrl = Null]
            ELSE s
      s2 == IF s1.abortController # Null
            THEN [abort(s1, s1.abortController) EXCEPT !.abortController = Null]
            ELSE s1
      s3 == setPreviewUrlRef(setPreviewUrl(s2, m, Null), comp, Null)
      s4 == setLoadingRef(setLoading(setError(s3, m, NoError), m, FALSE), comp, FALSE)
  IN [s4 EXCEPT !.currentFileId = "none"]

\* The early return for the file that is already loading or loaded.
SameIdGuard(s, p, comp) ==
  IF comp = "PublicFolderPreviewModal"
  THEN s.currentFileId = p.file.id /\ s.previewUrl # Null
  ELSE s.currentFileId = p.file.id /\ (s.loadingRef \/ s.previewUrlRef # Null)

\* const timeoutDuration = isVideoFile ? 60000 : 30000 (milliseconds);
\* PublicFolderPreviewModal races its fetch against no timer.
timeoutDuration(f, comp) ==
  IF comp = "PublicFolderPreviewModal" THEN Null
  ELSE IF isVideoFile(f) THEN 60000 ELSE 30000

NewFetch(p, comp) ==
  [ fileId |-> p.file.id, aborted |-> FALSE, phase |-> "fetch",
    superseded |-> FALSE, timeout |-> timeoutDuration(p.file, comp) ]

loadFilePreview(s, p, m, comp) ==
  IF p.file = NoFile \/ ~p.isOpen THEN ClosePath(s, m, comp)
  ELSE IF SameIdGuard(s, p, comp) THEN s
  ELSE
    LET s1 == IF s.abortController # Null THEN abort(s, s.abortController) ELSE s
        s2 == [s1 EXCEPT !.abortController = Detached]
        s3 == setLoadingRef(setLoading(s2, m, TRUE), comp, TRUE)
        s4 == [setError(s3, m, NoError) EXCEPT !.currentFileId = p.file.id]
    IN
    IF Previewable(p.file) THEN
      IF PreFetchError(p, comp) # NoError
      THEN FinallyBlock(CatchBlock(s4, m, comp, FALSE, PreFetchError(p, comp)),
                        m, comp, FALSE)
      ELSE [s4 EXCEPT !.fetches = Append(@, NewFetch(p, comp)),
                      !.abortController = Len(s4.fetches) + 1,
                      !.lastRequest = FetchRequest(p, comp)]
    ELSE
      FinallyBlock(setPreviewUrlRef(setPreviewUrl(s4, m, Null), comp, Null),
                   m, comp, FALSE)

\* Mutant of EffectCleanup: the cleanup aborts but does not revoke the URL.
EffectCleanupKeepsUrl(s, comp) ==
  IF s.abortController # Null
  THEN [abort(s, s.abortController) EXCEPT !.abortController = Null]
  ELSE s

\* The cleanup returned by the effect that calls loadFilePreview.
EffectCleanup(s, comp) ==
  LET s1 == IF s.abortController # Null
            THEN [abort(s, s.abortController) EXCEPT !.abortController = Null]
            ELSE s
  IN IF comp # "PublicFolderPreviewModal" /\ s1.currentBlobUrl # Null
     THEN [revokeObjectURL(s1, s1.currentBlobUrl) EXCEPT !.currentBlobUrl = Null]
     ELSE s1

\* PublicFolderPreviewModal's unmount-only effect cleanup.
UnmountCleanup(s, comp) ==
  IF comp = "PublicFolderPreviewModal" /\ s.currentBlobUrl # Null
  THEN [revokeObjectURL(s, s.currentBlobUrl) EXCEPT !.currentBlobUrl = Null]
  ELSE s

\* useEffect(..., [loadFilePreview]): cleanup of the previous run, then the run.
RunEffect(s, p, m, comp) == loadFilePreview(EffectCleanup(s, comp), p, m, comp)

\* PublicFolderPreviewModal lists the previewUrl state among loadFilePreview's
\* dependencies, the other two modals do not: the value of that dependency in
\* a render whose previewUrl is url.
EffectDep(comp, url) == IF comp = "PublicFolderPreviewModal" THEN url ELSE Null


\* ------------------------------------------------------------------------
\* loadFilePreview: the resumptions after `await`

\* const response = await Promise.race([fetchPromise, timeoutPromise]) resumes
\* with a response whose ok flag is set.
OnResponseOk(s, r, m, comp) ==
  IF s.fetches[r].aborted
  THEN [s EXCEPT !.fetches[r].phase = "done"]
  ELSE [s EXCEPT !.fetches[r].phase = "blob"]

\* ... resumes with a response that is not ok: the code throws.
OnResponseNotOk(s, r, m, comp) ==
  LET a == s.fetches[r].aborted
      s1 == IF a THEN s ELSE CatchBlock(s, m, comp, a, ErrStatus)
  IN [FinallyBlock(s1, m, comp, a) EXCEPT !.fetches[r].phase = "done"]

\* A rejection of the awaited promise (fetch or response.blob()): network
\* failure, or AbortError after abort().
OnReject(s, r, m, comp) ==
  LET a == s.fetches[r].aborted
  IN [FinallyBlock(CatchBlock(s, m, comp, a, ErrNetwork), m, comp, a)
        EXCEPT !.fetches[r].phase = "done"]

\* Mutant of OnBlob: the previous object URL is not revoked before the new one
\* replaces it.
OnBlobKeepsPreviousUrl(s, r, m, comp) ==
  IF s.fetches[r].aborted
  THEN [s EXCEPT !.fetches[r].phase = "done"]
  ELSE
    LET s2 == [createObjectURL(s, r) EXCEPT !.currentBlobUrl = r]
        s3 == setPreviewUrl(setPreviewUrlRef(s2, comp, r), m, r)
    IN [FinallyBlock(s3, m, comp, FALSE) EXCEPT !.fetches[r].phase = "done"]

\* const blob = await response.blob() resumes with the body.
OnBlob(s, r, m, comp) ==
  IF s.fetches[r].aborted
  THEN [s EXCEPT !.fetches[r].phase = "done"]
  ELSE
    LET s1 == IF s.currentBlobUrl # Null
              THEN revokeObjectURL(s, s.currentBlobUrl) ELSE s
        s2 == [createObjectURL(s1, r) EXCEPT !.currentBlobUrl = r]
        s3 == setPreviewUrl(setPreviewUrlRef(s2, comp, r), m, r)
    IN [FinallyBlock(s3, m, comp, FALSE) EXCEPT !.fetches[r].phase = "done"]

\* Mutant of OnTimer: the timer's rejection is reported as a network failure.
OnTimerAsNetworkError(s, r, m, comp) ==
  LET a == s.fetches[r].aborted
  IN IF ~a
     THEN [FinallyBlock(CatchBlock(s, m, comp, a, ErrNetwork), m, comp, a)
             EXCEPT !.fetches[r].phase = "timedout"]
     ELSE s

\* The setTimeout callback, firing while the race is pending (afterwards its
\* reject() is not observed): rejects the race unless the signal is aborted.
OnTimer(s, r, m, comp) ==
  LET a == s.fetches[r].aborted
  IN IF ~a
     THEN [FinallyBlock(CatchBlock(s, m, comp, a, ErrTimeout), m, comp, a)
             EXCEPT !.fetches[r].phase = "timedout"]
     ELSE s

\* ------------------------------------------------------------------------
\* Steps of one modal instance

Props == [file |-> file, isOpen |-> isOpen, token |-> token, isPublic |-> isPublic]

\* Bookkeeping for the properties: a fetch is superseded once the modal has been
\* asked for another file, closed, or unmounted.
Supersede(s, f, o, m) ==
  [s EXCEPT !.fetches =
     [r \in 1..Len(s.fetches) |->
        IF ~m \/ f = NoFile \/ ~o \/ f.id # s.fetches[r].fileId
        THEN [s.fetches[r] EXCEPT !.superseded = TRUE]
        ELSE s.fetches[r]]]

PreviewInit ==
  /\ component \in Components
  /\ mounted = TRUE
  /\ file = NoFile
  /\ isOpen = FALSE
  /\ token \in {NoToken, "jwt"}
  /\ isPublic = FALSE
  /\ loading = FALSE
  /\ previewUrl = Null
  /\ error = NoError
  /\ currentBlobUrl = Null
  /\ currentFileId = "none"
  /\ abortController = Null
  /\ loadingRef = FALSE
  /\ previewUrlRef = Null
  /\ fetches = <<>>
  /\ created = {}
  /\ revocations = [u \in 1..MaxUrls |-> 0]
  /\ lastRequest = [endpoint |-> "none", authorization |-> NoToken]
  /\ cleanupUrl = NoCleanup
  /\ downloads = <<>>
  /\ depPreviewUrl = Null

\* The parent renders the modal with props of which at least one dependency of
\* loadFilePreview differs.
SetProps(f, o, t, ip) ==
  /\ mounted
  /\ <<f, o, t, ip>> # <<file, isOpen, token, isPublic>>
  /\ component # "PreviewModal" => t = token /\ ip = isPublic
  /\ LET p == [file |-> f, isOpen |-> o, token |-> t, isPublic |-> ip]
         s == RunEffect(Supersede(Cur, f, o, TRUE), p, TRUE, component)
     IN /\ Len(s.fetches) <= MaxFetches
        /\ Commit(s)
  /\ depPreviewUrl' = EffectDep(component, previewUrl)
  /\ file' = f /\ isOpen' = o /\ token' = t /\ isPublic' = ip
  /\ UNCHANGED <<component, mounted, cleanupUrl, downloads, uvars>>

\* The parent passes a new object for the same file (same id, same fields).
NewFileObject ==
  /\ mounted
  /\ file # NoFile
  /\ LET s == RunEffect(Cur, Props, TRUE, component)
     IN /\ Len(s.fetches) <= MaxFetches
        /\ Commit(s)
  /\ depPreviewUrl' = EffectDep(component, previewUrl)
  /\ UNCHANGED <<component, mounted, file, isOpen, token, isPublic, cleanupUrl, downloads, uvars>>

Unmount ==
  /\ mounted
  /\ mounted' = FALSE
  /\ Commit(UnmountCleanup(EffectCleanup(Supersede(Cur, file, isOpen, FALSE), component),
                           component))
  /\ UNCHANGED <<component, file, isOpen, token, isPublic, cleanupUrl, downloads,
                 depPreviewUrl, uvars>>

\* A resumption of loadFilePreview for fetch r: the continuation runs to its
\* end; the render its state changes ask for comes later.
Resume(s) ==
  /\ Commit(s)
  /\ UNCHANGED <<component, mounted, file, isOpen, token, isPublic, cleanupUrl, downloads,
                 depPreviewUrl, uvars>>

\* PublicFolderPreviewModal renders with a previewUrl that differs from the one
\* the preview effect last ran with: the effect's cleanup and the effect run
\* again. The fetch the effect may issue here is not counted against
\* MaxFetches, which bounds what the parent asks for.
Render ==
  /\ component = "PublicFolderPreviewModal"
  /\ mounted
  /\ previewUrl # depPreviewUrl
  /\ Commit(RunEffect(Cur, Props, TRUE, component))
  /\ depPreviewUrl' = previewUrl
  /\ UNCHANGED <<component, mounted, file, isOpen, token, isPublic, cleanupUrl, downloads,
                 uvars>>

ResponseOk(r) ==
  /\ fetches[r].phase = "fetch"
  /\ Resume(OnResponseOk(Cur, r, mounted, component))

ResponseNotOk(r) ==
  /\ fetches[r].phase = "fetch"
  /\ Resume(OnResponseNotOk(Cur, r, mounted, component))

FetchReject(r) ==
  /\ fetches[r].phase = "fetch"
  /\ Resume(OnReject(Cur, r, mounted, component))

BlobOk(r) ==
  /\ fetches[r].phase = "blob"
  /\ Resume(OnBlob(Cur, r, mounted, component))

BlobReject(r) ==
  /\ fetches[r].phase = "blob"
  /\ Resume(OnReject(Cur, r, mounted, component))

TimerFires(r) ==
  /\ component # "PublicFolderPreviewModal"
  /\ fetches[r].phase = "fetch"
  /\ Resume(OnTimer(Cur, r, mounted, component))

\* The network request of a timed-out race settles; nothing awaits it.
LateSettle(r) ==
  /\ fetches[r].phase = "timedout"
  /\ Resume([Cur EXCEPT !.fetches[r].phase = "done"])

\* The kinds renderPreview tells apart for the <img> and <video> elements.
isImage(f) == f.mime_type.type = "image"
isVideo(f) == f.mime_type.type = "video"

\* onError of the <img> or <video> element that renderPreview returns when the
\* modal is not loading, has no error, and holds a previewUrl: the browser
\* could not load the URL.
OnMediaError ==
  /\ mounted /\ file # NoFile /\ isOpen
  /\ ~loading /\ error = NoError /\ previewUrl # Null
  /\ isImage(file) \/ isVideo(file)
  /\ error' = IF isImage(file) THEN ErrImage ELSE ErrVideo
  /\ UNCHANGED <<component, mounted, file, isOpen, token, isPublic, loading, previewUrl,
                 currentBlobUrl, currentFileId, abortController, loadingRef,
                 previewUrlRef, fetches, created, revocations, lastRequest,
                 cleanupUrl, downloads, depPreviewUrl, uvars>>

Next ==
  \/ \E f \in Catalog \cup {NoFile}, o \in BOOLEAN, t \in {NoToken, "jwt"}, ip \in BOOLEAN :
       SetProps(f, o, t, ip)
  \/ NewFileObject
  \/ Unmount
  \/ Render
  \/ OnMediaError
  \/ \E r \in 1..Len(fetches) : ResponseOk(r)
  \/ \E r \in 1..Len(fetches) : ResponseNotOk(r)
  \/ \E r \in 1..Len(fetches) : FetchReject(r)
  \/ \E r \in 1..Len(fetches) : BlobOk(r)
  \/ \E r \in 1..Len(fetches) : BlobReject(r)
  \/ \E r \in 1..Len(fetches) : TimerFires(r)
  \/ \E r \in 1..Len(fetches) : LateSettle(r)


\* ========================================================================
\* UploadButton

\* Number of upload tasks one UploadButton instance may create in a run.
MaxTasks == 2

Root == "root"           \* folderId absent: the top-level context
NoFileId == 0            \* an upload response that carries no file id
NullBody == -1           \* an upload response whose JSON body is null
\* The id the backend assigns to the file entity created by upload k.
ServerFileId(k) == 100 + k
FolderIds == {Root, "folderA"}

\* The local files the user may pick or drop.
LocalFiles == { [name |-> "a.txt", size |-> 33, type |-> "text/plain"] }

\* The values of the tags input when a batch is picked.
TagInputs == {"", "  ", " work,draft "}

\* String.prototype.trim, for the blanks the inputs above contain.
RECURSIVE TrimStart(_)
TrimStart(t) ==
  IF Len(t) > 0 /\ SubSeq(t, 1, 1) = " " THEN TrimStart(SubSeq(t, 2, Len(t))) ELSE t
RECURSIVE TrimEnd(_)
TrimEnd(t) ==
  IF Len(t) > 0 /\ SubSeq(t, Len(t), Len(t)) = " "
  THEN TrimEnd(SubSeq(t, 1, Len(t) - 1)) ELSE t
Trim(t) == TrimEnd(TrimStart(t))

\* The batches (FileList) of one pick or drop.
Batches == { <<f>> : f \in LocalFiles } \cup { <<f, g>> : f \in LocalFiles, g \in LocalFiles }

\* The boundary of multipart/form-data is the runtime's choice: 32 characters
\* in Node (undici), 38 in Chromium.
NodeBoundary == 32
Boundaries == {NodeBoundary, 38}

\* Bytes of the part formData.append('file', file) adds to the body: the
\* boundary line, Content-Disposition with name and filename, Content-Type, an
\* empty line, the file's bytes and a line end.
FilePartBytes(b, f) == (b + 4) + (58 + Len(f.name)) + (16 + Len(f.type)) + 2 + f.size + 2

\* Bytes of the part formData.append('tags', tags.trim()) adds, when
\* tags.trim() is not empty: the boundary line, Content-Disposition with the
\* name, an empty line, the value and a line end.
TagsPartBytes(b, tags) ==
  IF Trim(tags) = "" THEN 0 ELSE (b + 4) + 45 + 2 + Len(Trim(tags)) + 2

\* Size of the body xhr.send(formData) sends, event.total of its progress
\* events: the parts and the closing boundary line.
BodyBytes(b, f, tags) == FilePartBytes(b, f) + TagsPartBytes(b, tags) + (b + 6)

\* The byte counts a progress event may report as event.loaded: nothing, a part
\* of the body, all of it.
LoadedBytes(total) == {0, 29, total}

\* The XMLHttpRequest of a task whose POST is in flight, as the progress events
\* show it: the size of the body and the bytes reported so far. A task has none
\* before the POST is sent and after it has ended.
NoXhr == [total |-> 0, loaded |-> 0]

\* The k in 0..99 for which the double nearest to (2k+1)/200, multiplied by 100
\* in double arithmetic, is below k + 0.5 (for the other k it is k + 0.5 or
\* above).
TiesBelowHalf == {14, 28, 56, 57}

\* Math.round((loaded / total) * 100), computed in IEEE-754 doubles as the code
\* does. When 100 * loaded / total is not halfway between two integers it is
\* at least 1 / (2 * total) away from halfway, far more than the rounding
\* error of the double, so the double rounds like the exact quotient. When it
\* is exactly k + 0.5, loaded / total is (2k+1)/200 and the double is below or
\* above halfway according to k; Math.round takes a half upwards.
ProgressPercent(loaded, total) ==
  LET k == (100 * loaded) \div total
  IN IF 200 * loaded = (2 * k + 1) * total
     THEN (IF k \in TiesBelowHalf THEN k ELSE k + 1)
     ELSE (200 * loaded + total) \div (2 * total)

\* Mutant of MapUpload: the patch is applied to every item.
MapUploadAll(prev, uploadId, patch) ==
  [i \in 1..Len(prev) |->
     [x \in DOMAIN prev[i] |-> IF x \in DOMAIN patch THEN patch[x] ELSE prev[i][x]]]

\* prev.map(upload => upload.id === uploadId ? { ...upload, ...patch } : upload)
MapUpload(prev, uploadId, patch) ==
  [i \in 1..Len(prev) |->
     IF prev[i].id = uploadId
     THEN [x \in DOMAIN prev[i] |-> IF x \in DOMAIN patch THEN patch[x] ELSE prev[i][x]]
     ELSE prev[i]]

\* prev.filter(upload => upload.id !== uploadId)
FilterUpload(prev, uploadId) == SelectSeq(prev, LAMBDA u : u.id # uploadId)

\* A mounted instance on which nothing was picked yet.
UploadStart ==
  /\ uploads = <<>>
  /\ tasks = <<>>
  /\ buttonMounted = TRUE

UploadInit == UploadStart /\ boundary = NodeBoundary

\* The record of one uploadFile invocation: where it is suspended, what its
\* closure captured, and the calls it has made.
NewTask(f, folder, tok) ==
  [ pc |-> "start",
    file |-> f, folderId |-> folder, token |-> tok,
    xhr |-> NoXhr,           \* the request in flight
    posts |-> 0,             \* POST /files requests sent
    uploaded |-> FALSE,      \* the POST was answered 2xx with a JSON body
    fileId |-> NoFileId,     \* uploadResult.file?.id
    moves |-> <<>>,          \* PATCH /files/{id}/move requests sent
    toast |-> "none",        \* the addToast call
    refreshed |-> 0,         \* onUploadComplete calls
    timer |-> "none" ]       \* the 2 s removal timer

\* Mutant of uploadFile: the move request is sent along with the POST instead
\* of after its answer.
uploadFileMovesEarly(st, uploadId, total) ==
  IF st.tasks[uploadId].token = NoToken
  THEN [ uploads |-> MapUpload(st.uploads, uploadId, [status |-> "error"]),
         tasks |-> [st.tasks EXCEPT ![uploadId].pc = "done",
                                    ![uploadId].toast = "error: auth"] ]
  ELSE [ uploads |-> st.uploads,
         tasks |-> [st.tasks EXCEPT
                      ![uploadId].pc = "xhr",
                      ![uploadId].xhr = [total |-> total, loaded |-> 0],
                      ![uploadId].posts = @ + 1,
                      ![uploadId].moves =
                         IF st.tasks[uploadId].folderId # Root
                         THEN Append(@, [fileId |-> NoFileId,
                                         folder_id |-> st.tasks[uploadId].folderId])
                         ELSE @] ]

\* Mutant of uploadFile: the POST is sent whether or not there is a token.
uploadFileWithoutTokenCheck(st, uploadId, total) ==
  [ uploads |-> st.uploads,
    tasks |-> [st.tasks EXCEPT ![uploadId].pc = "xhr",
                               ![uploadId].xhr = [total |-> total, loaded |-> 0],
                               ![uploadId].posts = @ + 1] ]

\* uploadFile up to its first await: without a token the item is marked as
\* error and nothing is sent; otherwise the POST is sent, with a body of
\* `total` bytes (the form data built from the file and the tags).
uploadFile(st, uploadId, total) ==
  IF st.tasks[uploadId].token = NoToken
  THEN [ uploads |-> MapUpload(st.uploads, uploadId, [status |-> "error"]),
         tasks |-> [st.tasks EXCEPT ![uploadId].pc = "done",
                                    ![uploadId].toast = "error: auth"] ]
  ELSE [ uploads |-> st.uploads,
         tasks |-> [st.tasks EXCEPT ![uploadId].pc = "xhr",
                                    ![uploadId].xhr = [total |-> total, loaded |-> 0],
                                    ![uploadId].posts = @ + 1] ]

\* startRealUpload: for each file, append the item and call uploadFile, whose
\* closure holds the token, the folder and the tags of the render.
RECURSIVE startRealUpload(_, _, _, _, _, _)
startRealUpload(st, files, folder, tok, tags, b) ==
  IF files = <<>> THEN st
  ELSE
    LET f == Head(files)
        uploadId == Len(st.tasks) + 1
        uploadItem == [id |-> uploadId, name |-> f.name, progress |-> 0,
                       size |-> f.size, status |-> "uploading"]
        st1 == [ uploads |-> Append(st.uploads, uploadItem),
                 tasks |-> Append(st.tasks, NewTask(f, folder, tok)) ]
    IN startRealUpload(uploadFile(st1, uploadId, BodyBytes(b, f, tags)), Tail(files),
                       folder, tok, tags, b)

\* The user picks or drops a batch on the mounted instance while the props are
\* folderId and token and the tags input holds `tags`.
StartRealUpload(files, folder, tok, tags) ==
  /\ buttonMounted
  /\ Len(tasks) + Len(files) <= MaxTasks
  /\ LET st == startRealUpload([uploads |-> uploads, tasks |-> tasks], files, folder, tok,
                               tags, boundary)
     IN /\ uploads' = st.uploads
        /\ tasks' = st.tasks
  /\ UNCHANGED <<pvars, uenv>>

\* setUploads(...): the state of a mounted instance is replaced; an unmounted
\* instance has no state left and the call does nothing.
SetUploads(ups) == uploads' = IF buttonMounted THEN ups ELSE uploads

\* xhr.upload.onprogress. The transport reports, for one request, byte counts
\* that never decrease.
OnProgress(k, loaded, total, lengthComputable) ==
  /\ tasks[k].pc = "xhr"
  /\ loaded >= tasks[k].xhr.loaded
  /\ IF lengthComputable
     THEN /\ tasks' = [tasks EXCEPT ![k].xhr.loaded = loaded]
          /\ SetUploads(MapUpload(uploads, k,
                           [progress |-> ProgressPercent(loaded, total)]))
     ELSE UNCHANGED <<tasks, uploads>>
  /\ UNCHANGED <<pvars, uenv>>

\* The tail of the try block once the move step is over: success toast, removal
\* timer, onUploadComplete.
SuccessTail(tk) ==
  [tk EXCEPT !.pc = "done", !.toast = "success", !.timer = "pending",
             !.refreshed = @ + 1]

\* Mutant of CatchBlockUpload: a failed upload is sent again.
CatchBlockUploadRetries(ups, tk, k, message) ==
  [ uploads |-> ups,
    task |-> [tk EXCEPT !.pc = "xhr", !.posts = @ + 1, !.toast = message] ]

\* Mutant of CatchBlockUpload: the failed item is scheduled for removal like a
\* completed one.
CatchBlockUploadWithTimer(ups, tk, k, message) ==
  [ uploads |-> MapUpload(ups, k, [status |-> "error"]),
    task |-> [tk EXCEPT !.pc = "done", !.xhr = NoXhr, !.toast = message,
                        !.timer = "pending"] ]

\* Mutant of CatchBlockUpload: the failure is toasted but the item keeps its
\* status.
CatchBlockUploadSilent(ups, tk, k, message) ==
  [ uploads |-> ups,
    task |-> [tk EXCEPT !.pc = "done", !.xhr = NoXhr, !.toast = message] ]

\* error.message of the errors thrown after the upload request was answered.
ErrNullBody == "error: Cannot read properties of null (reading 'file')"
ErrMoveRejected == "error: Failed to fetch"

\* What await moveResponse.json().catch(() => ({})) gives for a not-ok answer:
\* an object with error.message, an object without it ({} when the body is not
\* JSON), or null when the body is the JSON text null.
MoveErrorBodies == {"error.message", "{}", "null"}

\* The message of the error thrown at the not-ok answer of the move request:
\* errorData.error?.message, else moveResponse.statusText, after the fixed
\* prefix; reading .error of null throws a TypeError instead.
ErrMove(body) ==
  IF body = "null" THEN "error: Cannot read properties of null (reading 'error')"
  ELSE IF body = "error.message" THEN "error: Failed to move file to folder: error.message"
  ELSE "error: Failed to move file to folder: statusText"

\* The body's file id as the task records it.
FileIdOf(id) == IF id = NullBody THEN NoFileId ELSE id

\* The 2xx bodies the server may answer the upload of task k with.
UploadBodies(k) == {ServerFileId(k), NoFileId, NullBody}

\* The catch block of uploadFile.
CatchBlockUpload(ups, tk, k, message) ==
  [ uploads |-> MapUpload(ups, k, [status |-> "error"]),
    task |-> [tk EXCEPT !.pc = "done", !.xhr = NoXhr, !.toast = message] ]

\* Mutant of AfterUpload: the move request is sent whatever the destination.
AfterUploadMovesAlways(ups, tk, k, id) ==
  [ uploads |-> MapUpload(ups, k, [progress |-> 100, status |-> "completed"]),
    task |-> [tk EXCEPT !.uploaded = TRUE, !.fileId = FileIdOf(id), !.pc = "move",
                        !.xhr = NoXhr,
                        !.moves = Append(@, [fileId |-> FileIdOf(id),
                                             folder_id |-> tk.folderId])] ]

\* Mutant of AfterUpload: the item is marked completed with the progress the
\* last progress event left.
AfterUploadKeepsProgress(ups, tk, k, id) ==
  LET completed == MapUpload(ups, k, [status |-> "completed"])
      t1 == [tk EXCEPT !.uploaded = TRUE, !.fileId = FileIdOf(id), !.xhr = NoXhr]
      isRoot == tk.folderId = Root
  IN IF isRoot THEN [ uploads |-> completed, task |-> SuccessTail(t1) ]
     ELSE IF id = NullBody THEN CatchBlockUpload(completed, t1, k, ErrNullBody)
     ELSE IF id # NoFileId
     THEN [ uploads |-> completed,
            task |-> [t1 EXCEPT !.pc = "move",
                                !.moves = Append(@, [fileId |-> id,
                                                     folder_id |-> tk.folderId])] ]
     ELSE [ uploads |-> completed, task |-> SuccessTail(t1) ]

\* The upload promise resolves (xhr.onload, 2xx status, JSON body); id is the
\* body's file.id, NoFileId when the body has none, NullBody when the body is
\* null. The item is marked completed; then `!isRoot && uploadResult.file?.id`
\* is evaluated, which for a folder destination reads uploadResult.file and
\* throws a TypeError on a null body.
AfterUpload(ups, tk, k, id) ==
  LET completed == MapUpload(ups, k, [progress |-> 100, status |-> "completed"])
      t1 == [tk EXCEPT !.uploaded = TRUE, !.fileId = FileIdOf(id), !.xhr = NoXhr]
      isRoot == tk.folderId = Root
  IN IF isRoot THEN [ uploads |-> completed, task |-> SuccessTail(t1) ]
     ELSE IF id = NullBody THEN CatchBlockUpload(completed, t1, k, ErrNullBody)
     ELSE IF id # NoFileId
     THEN [ uploads |-> completed,
            task |-> [t1 EXCEPT !.pc = "move",
                                !.moves = Append(@, [fileId |-> id,
                                                     folder_id |-> tk.folderId])] ]
     ELSE [ uploads |-> completed, task |-> SuccessTail(t1) ]

\* await fetch(.../move) resumes with a response: when it is ok the try block
\* runs to its end; when it is not, the code awaits moveResponse.json().
AfterMove(ups, tk, k, ok) ==
  IF ok
  THEN [ uploads |-> ups, task |-> SuccessTail(tk) ]
  ELSE [ uploads |-> ups, task |-> [tk EXCEPT !.pc = "moveError"] ]

\* await moveResponse.json().catch(() => ({})) resumes with the error body:
\* the message is built, which throws by itself on a null body, the error is
\* thrown, and the catch block runs.
AfterMoveErrorBody(ups, tk, k, body) ==
  CatchBlockUpload(ups, tk, k, ErrMove(body))

\* A resumption of task k's uploadFile run ends with the result r.
SetTask(k, r) ==
  /\ SetUploads(r.uploads)
  /\ tasks' = [tasks EXCEPT ![k] = r.task]
  /\ UNCHANGED <<pvars, uenv>>

OnLoadOk(k, id) ==
  /\ tasks[k].pc = "xhr"
  /\ SetTask(k, AfterUpload(uploads, tasks[k], k, id))

\* The upload promise rejects: xhr.onload with a non-2xx status or with a body
\* that is not JSON, xhr.onerror, xhr.ontimeout.
OnUploadFail(k, message) ==
  /\ tasks[k].pc = "xhr"
  /\ SetTask(k, CatchBlockUpload(uploads, tasks[k], k, message))

OnMoveOk(k) ==
  /\ tasks[k].pc = "move"
  /\ SetTask(k, AfterMove(uploads, tasks[k], k, TRUE))

\* The move request is answered with a status that is not ok.
OnMoveNotOk(k) ==
  /\ tasks[k].pc = "move"
  /\ SetTask(k, AfterMove(uploads, tasks[k], k, FALSE))

\* The body of the not-ok answer has been read (or could not be).
OnMoveErrorBody(k, body) ==
  /\ tasks[k].pc = "moveError"
  /\ SetTask(k, AfterMoveErrorBody(uploads, tasks[k], k, body))

\* The move request fails (fetch rejects): the catch block runs.
OnMoveReject(k) ==
  /\ tasks[k].pc = "move"
  /\ SetTask(k, CatchBlockUpload(uploads, tasks[k], k, ErrMoveRejected))

\* The callback of setTimeout(..., 2000)
OnRemovalTimer(k) ==
  /\ tasks[k].timer = "pending"
  /\ tasks' = [tasks EXCEPT ![k].timer = "fired"]
  /\ SetUploads(FilterUpload(uploads, k))
  /\ UNCHANGED <<pvars, uenv>>

\* Mutant of RemoveUpload: dismissing the item also ends its upload run.
RemoveUploadAborts(i) ==
  /\ uploads' = FilterUpload(uploads, uploads[i].id)
  /\ tasks' = [tasks EXCEPT ![uploads[i].id].pc = "done",
                            ![uploads[i].id].xhr = NoXhr]
  /\ UNCHANGED <<pvars, uenv>>

\* removeUpload: the user clicks the X of a listed item.
RemoveUpload(i) ==
  /\ uploads' = FilterUpload(uploads, uploads[i].id)
  /\ UNCHANGED <<tasks, pvars, uenv>>

\* The instance unmounts (the page that renders it is left): its state is
\* discarded. UploadButton has no effect cleanup: the requests in flight, the
\* uploadFile runs and the removal timers go on.
UnmountButton ==
  /\ buttonMounted
  /\ buttonMounted' = FALSE
  /\ uploads' = <<>>
  /\ UNCHANGED <<tasks, boundary, pvars>>

\* The messages the upload promise is rejected with that the model enumerates:
\* a non-2xx status (xhr.onload) and a timeout (xhr.ontimeout). The rejections
\* for a body that is not JSON and for xhr.onerror run the same catch block and
\* differ from these by their message only.
UploadFailures ==
  { "error: Upload failed: status", "error: Upload timeout" }

NextUpload ==
  \/ \E files \in Batches, folder \in FolderIds, tok \in {NoToken, "jwt"},
          tags \in TagInputs :
       StartRealUpload(files, folder, tok, tags)
  \/ \E k \in 1..Len(tasks) : \E n \in LoadedBytes(tasks[k].xhr.total), lc \in BOOLEAN :
       OnProgress(k, n, tasks[k].xhr.total, lc)
  \/ \E k \in 1..Len(tasks) : \E id \in UploadBodies(k) : OnLoadOk(k, id)
  \/ \E k \in 1..Len(tasks) : \E message \in UploadFailures : OnUploadFail(k, message)
  \/ \E k \in 1..Len(tasks) : OnMoveOk(k)
  \/ \E k \in 1..Len(tasks) : OnMoveNotOk(k)
  \/ \E k \in 1..Len(tasks) : \E body \in MoveErrorBodies : OnMoveErrorBody(k, body)
  \/ \E k \in 1..Len(tasks) : OnMoveReject(k)
  \/ \E k \in 1..Len(tasks) : OnRemovalTimer(k)
  \/ \E i \in 1..Len(uploads) : RemoveUpload(i)
  \/ UnmountButton

\* ========================================================================
\* Specifications

\* One preview modal; the upload button is not used.
Init == PreviewInit /\ UploadInit
Spec == Init /\ [][Next]_vars

\* One upload button; the preview modal stays closed.
InitUpload ==
  /\ PreviewInit /\ component = "PreviewModal" /\ token = NoToken
  /\ UploadStart /\ boundary \in Boundaries
SpecUpload == InitUpload /\ [][NextUpload]_vars


\* ========================================================================
\* Properties of the preview modals (checked under Spec)

\* The object URLs that are created and not revoked.
LiveUrls == {u \in created : revocations[u] = 0}

Closed == ~mounted \/ file = NoFile \/ ~isOpen

\* Fetches whose network request has not settled.
InFlight == {r \in 1..Len(fetches) : fetches[r].phase \in {"fetch", "blob", "timedout"}}

\* C1: every object URL a modal creates is revoked exactly once: no URL is
\* revoked twice, nothing but a created URL is revoked, every URL other than
\* the current one (currentBlobUrl) has been revoked, and once the modal is
\* closed or unmounted no URL is left unrevoked.
ExactlyOnceRevocation ==
  /\ \A u \in DOMAIN revocations : revocations[u] <= 1
  /\ \A u \in DOMAIN revocations : revocations[u] > 0 => u \in created
  /\ \A u \in created : u # currentBlobUrl => revocations[u] = 1
  /\ Closed => LiveUrls = {}

\* PreviewModal resolved file A, then file B: A's URL is revoked, B's is live.
WitnessSecondUrlLive ==
  \E u \in created, v \in created :
    /\ component = "PreviewModal"
    /\ fetches[u].fileId # fetches[v].fileId
    /\ revocations[u] = 1 /\ revocations[v] = 0
    /\ previewUrl = v /\ ~loading

\* C2: at most one object URL of a modal instance is live at any time (so a
\* URL created for a new file finds the previous one revoked by the end of the
\* step that creates it).
AtMostOneLiveUrl == Cardinality(LiveUrls) <= 1

\* PublicFolderPreviewModal replaced file A's URL by file B's.
WitnessFolderUrlReplaced ==
  \E u \in created, v \in created :
    /\ component = "PublicFolderPreviewModal"
    /\ fetches[u].fileId # fetches[v].fileId
    /\ revocations[u] = 1 /\ LiveUrls = {v}
    /\ previewUrl = v

\* C3: a resumption of loadFilePreview for a superseded fetch creates no object
\* URL and leaves previewUrl, error and loading as they are.
StaleResponseIgnored ==
  [][ \A r \in 1..Len(fetches) :
        (fetches[r].superseded /\ fetches'[r].phase # fetches[r].phase)
          => UNCHANGED <<created, previewUrl, error, loading>> ]_vars

\* The response of a superseded fetch has been handled while the modal shows
\* the URL of a later fetch for another file.
WitnessStaleResponseHandled ==
  \E r \in 1..Len(fetches), v \in LiveUrls :
    /\ fetches[r].superseded /\ fetches[r].phase = "done" /\ r \notin created
    /\ r < v /\ previewUrl = v /\ fetches[r].fileId # fetches[v].fileId
    /\ ~Closed

\* C4: at most one fetch of a modal instance is in flight and not aborted.
OneOutstandingFetch ==
  Cardinality({r \in InFlight : ~fetches[r].aborted}) <= 1

\* The fetch for the previous file is still in flight, aborted, next to the
\* fetch for the current file.
WitnessPreviousFetchAborted ==
  \E r \in InFlight, q \in InFlight :
    /\ r < q /\ fetches[r].fileId # fetches[q].fileId
    /\ fetches[r].aborted /\ ~fetches[q].aborted
    /\ ~Closed /\ file.id = fetches[q].fileId

\* C5 (as claimed): in PreviewModal, an effect run for the file id whose session
\* is in flight or resolved changes nothing: no fetch is issued or aborted, no
\* object URL is revoked, and the session state stays as it is.
SessionInFlight ==
  /\ currentFileId = file.id /\ loadingRef
  /\ \E r \in InFlight : fetches[r].fileId = file.id /\ ~fetches[r].aborted
SessionResolved ==
  /\ currentFileId = file.id /\ previewUrlRef # Null /\ previewUrlRef \in LiveUrls
SameIdResolveIsNoOp ==
  [][ ( /\ component = "PreviewModal"
        /\ mounted /\ mounted'
        /\ ~Closed /\ (SessionInFlight \/ SessionResolved)
        /\ file' # NoFile /\ isOpen' /\ file'.id = file.id
        /\ \A r \in 1..Len(fetches) : fetches'[r].phase = fetches[r].phase )
      => UNCHANGED <<fetches, created, revocations, loading, previewUrl, error,
                     currentBlobUrl, currentFileId, loadingRef, previewUrlRef>> ]_vars


\* ========================================================================
\* Properties of the upload button (checked under SpecUpload)

Items(ups) == {ups[i] : i \in 1..Len(ups)}

\* Every item of a task other than k is listed before and after the step, as it
\* was.
OthersUnchanged(k) ==
  /\ {u \in Items(uploads) : u.id # k} = {u \in Items(uploads') : u.id # k}
  /\ SelectSeq(uploads, LAMBDA u : u.id # k) = SelectSeq(uploads', LAMBDA u : u.id # k)

\* The step unmounts the upload button, which discards its whole list.
IsUnmountButton == buttonMounted /\ ~buttonMounted'

\* C6: a step of task k (progress, success, failure, move failure, removal
\* timer, dismissal) leaves the items of all other tasks unchanged; enqueuing a
\* batch leaves the items already listed unchanged. (The one step that is not
\* a task's, the unmounting of the button, discards the list as a whole.)
SiblingTasksUntouched ==
  [][ /\ \A k \in 1..Len(tasks) : tasks'[k] # tasks[k] => OthersUnchanged(k)
      /\ (tasks' = tasks /\ uploads' # uploads /\ ~IsUnmountButton)
           => \E i \in 1..Len(uploads) : OthersUnchanged(uploads[i].id)
      /\ Len(tasks') > Len(tasks)
           => /\ SubSeq(tasks', 1, Len(tasks)) = tasks
              /\ SubSeq(uploads', 1, Len(uploads)) = uploads ]_vars

\* One task of a batch has failed and its sibling has completed, both listed.
WitnessErrorBesideCompleted ==
  \E i \in 1..Len(uploads), j \in 1..Len(uploads) :
    /\ uploads[i].status = "error" /\ tasks[uploads[i].id].posts = 1
    /\ uploads[j].status = "completed" /\ uploads[j].progress = 100

\* The relocation call task k must have made: fileId from its upload response,
\* folder_id its destination folder.
ExpectedMove(k) == [fileId |-> tasks[k].fileId, folder_id |-> tasks[k].folderId]

\* C7 (as claimed): a task whose upload succeeded into a non-root folder has
\* issued exactly one relocation call, with the response's file id and the
\* folder id; a task uploading into the root has issued none.
OneMovePerFolderUpload ==
  \A k \in 1..Len(tasks) :
    tasks[k].uploaded =>
      IF tasks[k].folderId # Root
      THEN tasks[k].moves = <<ExpectedMove(k)>>
      ELSE tasks[k].moves = <<>>

\* C7 (amended): ... whose upload response carries a file id ...; a task whose
\* response carries no file id, or that uploads into the root, has issued none.
OneMovePerIdentifiedFolderUpload ==
  \A k \in 1..Len(tasks) :
    tasks[k].uploaded =>
      IF tasks[k].folderId # Root /\ tasks[k].fileId # NoFileId
      THEN tasks[k].moves = <<ExpectedMove(k)>>
      ELSE tasks[k].moves = <<>>

\* An upload into a folder has issued its relocation call with the id the
\* backend gave it, and an upload into the root has finished without one.
WitnessMoveIssued ==
  /\ \E k \in 1..Len(tasks) :
       /\ tasks[k].uploaded /\ tasks[k].folderId # Root
       /\ tasks[k].moves = <<[fileId |-> ServerFileId(k), folder_id |-> "folderA"]>>
  /\ \E k \in 1..Len(tasks) :
       tasks[k].uploaded /\ tasks[k].folderId = Root /\ tasks[k].pc = "done"

\* C8 (as claimed): the item of a task whose upload succeeded has status
\* completed, also after its relocation call failed.
UploadOutcomeSurvivesMoveFailure ==
  \A i \in 1..Len(uploads) :
    tasks[uploads[i].id].uploaded => uploads[i].status = "completed"

\* C9: a task has issued a relocation call only if its upload request was
\* answered 2xx; a task whose upload failed has issued none.
MoveOnlyAfterUploadSuccess ==
  \A k \in 1..Len(tasks) :
    /\ tasks[k].moves # <<>> => tasks[k].uploaded /\ tasks[k].posts = 1
    /\ tasks[k].toast \in UploadFailures => tasks[k].moves = <<>> /\ ~tasks[k].uploaded

\* In one batch into a folder, one upload has failed without a relocation call
\* and the other has succeeded and issued its call.
WitnessFailedUploadNoMove ==
  \E k \in 1..Len(tasks), j \in 1..Len(tasks) :
    /\ tasks[k].toast = "error: Upload timeout" /\ tasks[k].folderId # Root
    /\ tasks[k].moves = <<>>
    /\ tasks[j].uploaded /\ Len(tasks[j].moves) = 1

\* C10 (as claimed): a task whose upload succeeded calls onUploadComplete
\* exactly once, and has called it by the time its removal timer fires.
RefreshOncePerUploadedTask ==
  \A k \in 1..Len(tasks) :
    /\ tasks[k].refreshed <= 1
    /\ tasks[k].uploaded /\ tasks[k].pc = "done" => tasks[k].refreshed = 1
    /\ tasks[k].timer = "fired" => tasks[k].refreshed = 1

\* ========================================================================
\* The dispatch of loadFilePreview on the file's kind, size and credentials

\* File descriptors of every kind the modals tell apart, at and just above the
\* size ceilings, with an active, an inactive and no share link.
WideCatalog ==
  { [id |-> "img", mime_type |-> Mime("image", "png"), size_bytes |-> 200000000,
     share_link |-> [token |-> "s1", is_active |-> TRUE],
     download_url |-> NoUrl],
    [id |-> "pdfOk", mime_type |-> Mime("application", "pdf"), size_bytes |-> 50000000,
     share_link |-> [token |-> "s2", is_active |-> FALSE],
     download_url |-> PresignedUrl],
    [id |-> "pdfBig", mime_type |-> Mime("application", "pdf"), size_bytes |-> 50000001,
     share_link |-> [token |-> "s3", is_active |-> TRUE],
     download_url |-> NoUrl],
    [id |-> "vidOk", mime_type |-> Mime("video", "mp4"), size_bytes |-> 100000000,
     share_link |-> NoShare,
     download_url |-> NoUrl],
    [id |-> "vidBig", mime_type |-> Mime("video", "webm"), size_bytes |-> 100000001,
     share_link |-> [token |-> "s4", is_active |-> FALSE],
     download_url |-> PresignedUrl],
    [id |-> "txtOk", mime_type |-> Mime("text", "plain"), size_bytes |-> 500000,
     share_link |-> [token |-> "s5", is_active |-> TRUE],
     download_url |-> PresignedUrl],
    [id |-> "txtBig", mime_type |-> Mime("text", "csv"), size_bytes |-> 500001,
     share_link |-> [token |-> "s6", is_active |-> TRUE],
     download_url |-> NoUrl],
    [id |-> "json", mime_type |-> Mime("application", "json"), size_bytes |-> 10,
     share_link |-> NoShare,
     download_url |-> NoUrl],
    [id |-> "js", mime_type |-> Mime("application", "javascript"), size_bytes |-> 500001,
     share_link |-> [token |-> "s7", is_active |-> FALSE],
     download_url |-> NoUrl],
    [id |-> "xml", mime_type |-> Mime("application", "xml"), size_bytes |-> 10,
     share_link |-> [token |-> "s8", is_active |-> TRUE],
     download_url |-> NoUrl],
    [id |-> "xmlBig", mime_type |-> Mime("application", "xml"), size_bytes |-> 500001,
     share_link |-> [token |-> "s11", is_active |-> TRUE],
     download_url |-> NoUrl],
    [id |-> "audio", mime_type |-> Mime("audio", "mpeg"), size_bytes |-> 10,
     share_link |-> [token |-> "s9", is_active |-> TRUE],
     download_url |-> NoUrl],
    [id |-> "zip", mime_type |-> Mime("application", "zip"), size_bytes |-> 600000,
     share_link |-> [token |-> "s10", is_active |-> TRUE],
     download_url |-> NoUrl] }

\* A modal instance as constructed: PreviewModal with or without the isPublic
\* prop, the other two without it.
InitResolve ==
  /\ component \in Components
  /\ mounted = TRUE
  /\ file = NoFile
  /\ isOpen = FALSE
  /\ token \in {NoToken, "jwt"}
  /\ isPublic \in BOOLEAN
  /\ component # "PreviewModal" => isPublic = FALSE
  /\ loading = FALSE
  /\ previewUrl = Null
  /\ error = NoError
  /\ currentBlobUrl = Null
  /\ currentFileId = "none"
  /\ abortController = Null
  /\ loadingRef = FALSE
  /\ previewUrlRef = Null
  /\ fetches = <<>>
  /\ created = {}
  /\ revocations = [u \in 1..MaxUrls |-> 0]
  /\ lastRequest = [endpoint |-> "none", authorization |-> NoToken]
  /\ cleanupUrl = NoCleanup
  /\ downloads = <<>>
  /\ depPreviewUrl = Null
  /\ UploadInit

\* The parent opens the modal on file f (previewFile set, isOpen = !!previewFile)
\* while the instance has issued no fetch yet.
OpenFile(f) ==
  /\ fetches = <<>>
  /\ SetProps(f, TRUE, token, isPublic)

\* The parent closes the modal (previewFile reset to null).
CloseModal == SetProps(NoFile, FALSE, token, isPublic)

NextResolve ==
  \/ \E f \in WideCatalog : OpenFile(f)
  \/ CloseModal
  \/ Unmount
  \/ Render
  \/ OnMediaError
  \/ \E r \in 1..Len(fetches) : ResponseOk(r)
  \/ \E r \in 1..Len(fetches) : ResponseNotOk(r)
  \/ \E r \in 1..Len(fetches) : FetchReject(r)
  \/ \E r \in 1..Len(fetches) : BlobOk(r)
  \/ \E r \in 1..Len(fetches) : BlobReject(r)
  \/ \E r \in 1..Len(fetches) : TimerFires(r)
  \/ \E r \in 1..Len(fetches) : LateSettle(r)

\* One preview modal opened on files of every kind, up to its first fetch.
SpecResolve == InitResolve /\ [][NextResolve]_vars

\* ========================================================================
\* Properties of the dispatch (checked under SpecResolve)

\* A step in which the effect runs loadFilePreview for a newly opened file.
ResolveStep ==
  /\ mounted /\ mounted'
  /\ isOpen' /\ file' # NoFile
  /\ <<file', isOpen'>> # <<file, isOpen>>

\* The step issues a fetch.
IssuesFetch == Len(fetches') > Len(fetches)
NoNetworkCall == fetches' = fetches /\ lastRequest' = lastRequest

\* The component's credential precondition: PreviewModal needs the bearer token
\* or the public context, PublicPreviewModal a share token.
CredentialOk(comp, f, t, ip) ==
  /\ comp = "PreviewModal" => (t # NoToken \/ ip)
  /\ comp = "PublicPreviewModal" => f.share_link.token # "none"

\* The file exceeds the ceiling of its kind; images have none.
OverCeiling(f) ==
  \/ isTextFile(f) /\ f.size_bytes > TextMaxBytes
  \/ isVideoFile(f) /\ f.size_bytes > VideoMaxBytes
  \/ isPDFFile(f) /\ f.size_bytes > PdfMaxBytes

TooLargeErrors == {ErrTextLarge, ErrVideoLarge, ErrPdfLarge}

\* C11: opening the modal on a file whose MIME type is not previewable ends,
\* within the step, in the NoPreview state (no object URL, no error, not
\* loading) and issues no network call.
NoPreviewForOtherKinds ==
  [][ (ResolveStep /\ ~Previewable(file')) =>
        /\ previewUrl' = Null /\ currentBlobUrl' = Null
        /\ error' = NoError
        /\ ~loading'
        /\ NoNetworkCall ]_vars

\* The modal is open on the zip archive and shows no preview.
WitnessZipNoPreview ==
  /\ mounted /\ isOpen /\ file # NoFile
  /\ file.mime_type = Mime("application", "zip")
  /\ currentFileId = file.id
  /\ previewUrl = Null /\ error = NoError /\ ~loading /\ fetches = <<>>

\* The previewable set of the specification.
SpecPreviewable(f) ==
  \/ f.mime_type.type \in {"image", "video", "audio", "text"}
  \/ f.mime_type \in { Mime("application", "pdf"), Mime("application", "json"),
                       Mime("application", "javascript"), Mime("application", "xml"),
                       Mime("text", "csv") }

\* The kinds of the specification that have a ceiling: text is text/*,
\* application/json, application/javascript, application/xml and text/csv.
SpecTextKind(f) ==
  \/ f.mime_type.type = "text"
  \/ f.mime_type \in { Mime("application", "json"), Mime("application", "javascript"),
                       Mime("application", "xml") }

\* The file exceeds the ceiling the specification gives its kind.
SpecOverCeiling(f) ==
  \/ SpecTextKind(f) /\ f.size_bytes > TextMaxBytes
  \/ f.mime_type.type = "video" /\ f.size_bytes > VideoMaxBytes
  \/ f.mime_type = Mime("application", "pdf") /\ f.size_bytes > PdfMaxBytes

\* C12: opening the modal on a previewable file above the ceiling of its kind
\* (text 500,000, video 100,000,000, PDF 50,000,000 bytes) ends in a TooLarge
\* error, with no object URL and not loading, and issues no network call.
TooLargeWhateverCredentials ==
  [][ (ResolveStep /\ SpecPreviewable(file') /\ SpecOverCeiling(file')) =>
        /\ error' \in TooLargeErrors
        /\ previewUrl' = Null /\ ~loading'
        /\ NoNetworkCall ]_vars

\* C13: in PreviewModal, opening a previewable file outside the public context
\* and without a bearer credential ends at once in the AuthRequired error (no
\* object URL, not loading) and issues no fetch.
AuthRequiredWithoutCredential ==
  [][ (ResolveStep /\ component = "PreviewModal" /\ SpecPreviewable(file')
         /\ token' = NoToken /\ ~isPublic') =>
        /\ error' = ErrAuth
        /\ previewUrl' = Null /\ ~loading'
        /\ NoNetworkCall ]_vars

\* C14: every fetch PreviewModal issues goes to /p/{shareToken} without an
\* Authorization header when the file carries an active share token, and
\* otherwise to /files/{id}/download with the bearer credential in the
\* Authorization header, whatever token, isPublic and the share link are.
FetchEndpointAndCredential ==
  [][ (component = "PreviewModal" /\ IssuesFetch) =>
        IF hasPublicToken(file')
        THEN lastRequest' = [endpoint |-> "/p/{shareToken}", authorization |-> NoToken]
        ELSE /\ lastRequest' = [endpoint |-> "/files/{id}/download",
                                authorization |-> token']
             /\ token' # NoToken ]_vars

\* C15: with the credential and size preconditions met, a fetch is issued if
\* and only if the MIME type is image/*, application/pdf, video/*, audio/*,
\* text/*, application/json, application/javascript, application/xml or
\* text/csv.
FetchIffPreviewable ==
  [][ (ResolveStep /\ CredentialOk(component, file', token', isPublic')
         /\ ~OverCeiling(file')) =>
        (IssuesFetch <=> SpecPreviewable(file')) ]_vars

\* The file a fetch was issued for.
FetchedFile(r) == CHOOSE f \in WideCatalog : f.id = fetches[r].fileId

\* C16: a fetch of PreviewModal or PublicPreviewModal races a timer of 60 s for
\* a video and 30 s for any other kind; when the timer fires before the fetch
\* settles and the request is not aborted, the session ends in the Timeout
\* error, which differs from the network errors, with no object URL and not
\* loading; a response that arrives after the timeout creates no object URL and
\* changes nothing shown.
TimeoutEndsSession ==
  [][ \A r \in 1..Len(fetches) :
        /\ (component # "PublicFolderPreviewModal" /\ Len(fetches') = Len(fetches)) =>
              fetches[r].timeout = IF FetchedFile(r).mime_type.type = "video"
                                   THEN 60000 ELSE 30000
        /\ (fetches[r].phase = "fetch" /\ fetches'[r].phase = "timedout") =>
              /\ ~fetches[r].aborted
              /\ error' = ErrTimeout /\ ErrTimeout \notin {ErrNetwork, ErrStatus}
              /\ previewUrl' = Null /\ ~loading'
              /\ r \notin created'
        /\ (fetches[r].phase = "timedout" /\ fetches'[r].phase # "timedout") =>
              /\ r \notin created'
              /\ UNCHANGED <<created, previewUrl, error, loading>> ]_vars

\* The 60 s timer of a video fetch has fired and the modal shows the Timeout
\* error.
WitnessVideoTimeout ==
  \E r \in 1..Len(fetches) :
    /\ fetches[r].phase = "timedout" /\ fetches[r].timeout = 60000
    /\ mounted /\ isOpen
    /\ error = ErrTimeout /\ previewUrl = Null /\ ~loading /\ created = {}

\* ========================================================================
\* Properties of the upload tasks, continued (checked under SpecUpload)

\* C17: a task sends POST /files at most once: the request count of a task is
\* at most one, never changes after the task is created, and a task that has
\* ended (in particular after a transport failure) is never resumed.
AtMostOnePost ==
  /\ [](\A k \in 1..Len(tasks) : tasks[k].posts <= 1)
  /\ [][ \A k \in 1..Len(tasks) :
           /\ tasks'[k].posts = tasks[k].posts
           /\ tasks[k].pc = "done" => tasks'[k].pc = "done" ]_vars

\* An upload failed at the transport level after its single POST.
WitnessTransportFailureNoRetry ==
  \E k \in 1..Len(tasks) :
    /\ tasks[k].toast = "error: Upload timeout"
    /\ tasks[k].posts = 1 /\ tasks[k].pc = "done"
    /\ \E u \in Items(uploads) : u.id = k /\ u.status = "error"

\* C18: the progress of a listed item starts at 0, stays within 0..100, never
\* decreases, and is 100 whenever the item's status is completed. The progress
\* events are those of one XMLHttpRequest upload, whose loaded count does not
\* decrease (the guard of OnProgress); the code adds no ordering of its own.
ProgressMonotone ==
  /\ [](\A u \in Items(uploads) :
          /\ u.progress \in 0..100
          /\ u.status = "completed" => u.progress = 100)
  /\ [][ \A v \in Items(uploads') :
           IF \E u \in Items(uploads) : u.id = v.id
           THEN \A u \in Items(uploads) : u.id = v.id => v.progress >= u.progress
           ELSE v.progress = 0 ]_vars

\* One item shows a partial progress report of its request in flight, beside
\* an item that has completed at 100.
WitnessProgressThenCompleted ==
  \E u \in Items(uploads), v \in Items(uploads) :
    /\ u.status = "uploading" /\ u.progress > 0 /\ u.progress < 100
    /\ tasks[u.id].xhr.loaded > 0 /\ tasks[u.id].xhr.loaded < tasks[u.id].xhr.total
    /\ v.status = "completed" /\ v.progress = 100

\* C20: while the upload button is mounted, an item in status error leaves the
\* list only by removeUpload of that item: every other step (removal timers,
\* events of other tasks) keeps it listed, unchanged. No timer is ever set for
\* a task that failed.
ErrorStaysUntilDismissed ==
  /\ [][ \A i \in 1..Len(uploads) :
           uploads[i].status = "error" =>
             \/ uploads[i] \in Items(uploads')
             \/ /\ uploads' = FilterUpload(uploads, uploads[i].id)
                /\ tasks' = tasks
             \/ IsUnmountButton ]_vars
  /\ [](\A k \in 1..Len(tasks) :
          (tasks[k].pc = "done" /\ tasks[k].toast # "success") => tasks[k].timer = "none")

\* The removal timer of a completed task has fired while a failed task is
\* still listed.
WitnessErrorOutlivesTimer ==
  \E u \in Items(uploads), j \in 1..Len(tasks) :
    /\ u.status = "error" /\ j # u.id
    /\ tasks[j].timer = "fired"

\* ------------------------------------------------------------------------
\* Upload tasks under a transport that answers

\* The transport answers task k's pending request: the POST is answered 2xx,
\* fails, errors or times out; the move request is answered ok or not ok.
Settle(k) ==
  \/ \E id \in UploadBodies(k) : OnLoadOk(k, id)
  \/ \E message \in UploadFailures : OnUploadFail(k, message)
  \/ OnMoveOk(k)
  \/ OnMoveNotOk(k)
  \/ \E body \in MoveErrorBodies : OnMoveErrorBody(k, body)
  \/ OnMoveReject(k)

\* Every pending request of every task is eventually answered, and the body of
\* a not-ok answer is eventually read; nothing is
\* assumed of the user (picking files, dismissing items) or of progress events.
FairTransport == \A k \in 1..MaxTasks : WF_vars(k <= Len(tasks) /\ Settle(k))

\* handleInputChange / handleDrop: the first batch picked on this instance.
PickBatch(files, folder, tok, tags) ==
  /\ tasks = <<>>
  /\ StartRealUpload(files, folder, tok, tags)

NextUploadBatch ==
  \/ \E files \in Batches, folder \in FolderIds, tok \in {NoToken, "jwt"},
          tags \in TagInputs :
       PickBatch(files, folder, tok, tags)
  \/ \E k \in 1..Len(tasks) : \E n \in LoadedBytes(tasks[k].xhr.total), lc \in BOOLEAN :
       OnProgress(k, n, tasks[k].xhr.total, lc)
  \/ \E k \in 1..Len(tasks) : \E id \in UploadBodies(k) : OnLoadOk(k, id)
  \/ \E k \in 1..Len(tasks) : \E message \in UploadFailures : OnUploadFail(k, message)
  \/ \E k \in 1..Len(tasks) : OnMoveOk(k)
  \/ \E k \in 1..Len(tasks) : OnMoveNotOk(k)
  \/ \E k \in 1..Len(tasks) : \E body \in MoveErrorBodies : OnMoveErrorBody(k, body)
  \/ \E k \in 1..Len(tasks) : OnMoveReject(k)
  \/ \E k \in 1..Len(tasks) : OnRemovalTimer(k)
  \/ \E i \in 1..Len(uploads) : RemoveUpload(i)
  \/ UnmountButton

\* One upload button on which one batch is picked, with a transport that
\* answers.
SpecUploadFair == InitUpload /\ [][NextUploadBatch]_vars /\ FairTransport

\* The item of task k, as a set (empty once the item has left the list).
ItemOf(k) == {u \in Items(uploads) : u.id = k}

\* Whatever the state, a batch of N files adds exactly N tasks and N items, in
\* order, with progress 0; an item is uploading, or already error when there is
\* no token (set by uploadFile within the same handler).
BatchCreatesOneTaskPerFile ==
  \A files \in Batches, folder \in FolderIds, tok \in {NoToken, "jwt"},
     tags \in TagInputs :
    LET st == startRealUpload([uploads |-> uploads, tasks |-> tasks], files, folder, tok,
                              tags, boundary)
        n == Len(files)
    IN /\ Len(st.tasks) = Len(tasks) + n
       /\ Len(st.uploads) = Len(uploads) + n
       /\ \A j \in 1..n :
            /\ st.tasks[Len(tasks) + j].file = files[j]
            /\ st.uploads[Len(uploads) + j] =
                 [ id |-> Len(tasks) + j, name |-> files[j].name, progress |-> 0,
                   size |-> files[j].size,
                   status |-> IF tok = NoToken THEN "error" ELSE "uploading" ]
       /\ \A i \in 1..Len(uploads) : st.uploads[i] = uploads[i]
       /\ \A k \in 1..Len(tasks) : st.tasks[k] = tasks[k]

\* C19 as stated: a batch of N files creates exactly N tasks with progress 0,
\* and the listed item of every task eventually has status completed or error,
\* given a transport that answers.
EveryTaskSettles ==
  /\ []BatchCreatesOneTaskPerFile
  /\ \A k \in 1..MaxTasks :
       \/ [](k > Len(tasks))
       \/ <>(\E u \in ItemOf(k) : u.status \in {"completed", "error"})

\* C19, amended: a batch of N files creates exactly N tasks with progress 0;
\* given a transport that answers, every task's uploadFile run ends, and by
\* then its item is completed, error, or no longer listed (dismissed by the
\* user while uploading, removed by the timer after completing, or discarded
\* with the button when it unmounts); an item never stays uploading forever.
EveryTaskSettlesOrIsDismissed ==
  /\ []BatchCreatesOneTaskPerFile
  /\ \A k \in 1..MaxTasks :
       (k <= Len(tasks)) ~> (k <= Len(tasks) /\ tasks[k].pc = "done")
  /\ \A k \in 1..MaxTasks :
       []((k <= Len(tasks) /\ tasks[k].pc = "done") =>
            \A u \in ItemOf(k) : u.status \in {"completed", "error"})

\* A batch of two files was enqueued; one task completed and one failed, both
\* still listed.
WitnessBatchSettled ==
  /\ Len(tasks) = 2 /\ Len(uploads) = 2
  /\ tasks[1].pc = "done" /\ tasks[2].pc = "done"
  /\ tasks[1].posts = 1 /\ tasks[2].posts = 1
  /\ \E u \in ItemOf(1) : u.status = "completed"
  /\ \E u \in ItemOf(2) : u.status = "error"

\* ========================================================================
\* Dismissal and enqueueing without a token (checked under SpecUpload)

\* The step is removeUpload of the item at position i.
IsRemoveUpload(i) ==
  /\ uploads' = FilterUpload(uploads, uploads[i].id)
  /\ uploads' # uploads
  /\ tasks' = tasks

\* C21: removeUpload removes exactly the dismissed item and leaves the upload
\* runs as they are (the request in flight is not aborted); an item leaves the
\* list only by removeUpload, by its removal timer or with the button itself;
\* an item that has left the list never reappears, whatever callbacks of its
\* task fire later;
\* and a task whose item is gone still sends its move request and calls the
\* refresh hook when it succeeds.
DismissedStaysDismissed ==
  /\ [][ /\ \A i \in 1..Len(uploads) :
              IsRemoveUpload(i) =>
                /\ Len(uploads') = Len(uploads) - 1
                /\ Items(uploads') = Items(uploads) \ {uploads[i]}
         /\ \A i \in 1..Len(uploads) :
              (\A v \in Items(uploads') : v.id # uploads[i].id) =>
                 \/ IsRemoveUpload(i)
                 \/ /\ tasks[uploads[i].id].timer = "pending"
                    /\ tasks' = [tasks EXCEPT ![uploads[i].id].timer = "fired"]
                 \/ IsUnmountButton
         /\ \A k \in 1..Len(tasks) :
              ItemOf(k) = {} => (\A v \in Items(uploads') : v.id # k) ]_vars
  /\ [](\A k \in 1..Len(tasks) :
          (tasks[k].pc = "done" /\ tasks[k].toast = "success") =>
             /\ tasks[k].refreshed = 1
             /\ (tasks[k].folderId # Root /\ tasks[k].fileId # NoFileId) =>
                   tasks[k].moves = <<ExpectedMove(k)>>)

\* An item was dismissed and later its task answered: the POST succeeded, the
\* move request was sent and the refresh hook was called, and the item is
\* still not listed (the removal timer has not fired).
WitnessDismissedTaskCompletes ==
  \E k \in 1..Len(tasks) :
    /\ ItemOf(k) = {}
    /\ tasks[k].pc = "done" /\ tasks[k].toast = "success"
    /\ tasks[k].moves # <<>> /\ tasks[k].refreshed = 1
    /\ tasks[k].timer = "pending"

\* C30: a task enqueued while the auth token is absent is created and set to
\* error within the enqueueing step: it sends no upload request and no move
\* request, does not call the refresh hook, and is not scheduled for removal;
\* its item stays listed as error, with progress 0, until it is dismissed.
NoTokenTaskIsInert ==
  \A k \in 1..Len(tasks) :
    tasks[k].token = NoToken =>
      /\ tasks[k].pc = "done" /\ tasks[k].toast = "error: auth"
      /\ tasks[k].posts = 0 /\ tasks[k].moves = <<>>
      /\ tasks[k].refreshed = 0
      /\ tasks[k].timer = "none"
      /\ \A u \in ItemOf(k) : u.status = "error" /\ u.progress = 0

\* A task enqueued without a token is listed as error beside a task that was
\* enqueued with a token and has been removed by its timer.
WitnessNoTokenTaskListed ==
  \E k \in 1..Len(tasks), j \in 1..Len(tasks) :
    /\ tasks[k].token = NoToken /\ ItemOf(k) # {}
    /\ tasks[j].token # NoToken /\ tasks[j].timer = "fired"

\* ========================================================================
\* PublicFilePage: the inline preview effect

\* The page's `loading` variable below is its previewLoading state; `token` is
\* the share token of the route; `file` is the descriptor built from the HEAD
\* response.

isPreviewableType(f) ==
  \/ f.mime_type.type \in {"image", "video", "audio"}
  \/ f.mime_type = Mime("application", "pdf")

\* The effect returns before fetchPreview, and returns no cleanup.
PageSkips(f) ==
  \/ ~isPreviewableType(f)
  \/ f.mime_type = Mime("application", "pdf") /\ f.size_bytes > PdfMaxBytes
  \/ f.mime_type.type = "video" /\ f.size_bytes > VideoMaxBytes

PageFetch(f) ==
  [ fileId |-> f.id, aborted |-> FALSE, phase |-> "fetch",
    superseded |-> FALSE, timeout |-> Null ]

\* return () => { if (previewUrl) URL.revokeObjectURL(previewUrl) }, where
\* previewUrl is the value c of the render in which the effect ran.
PageCleanup(s, c) ==
  IF c # NoCleanup /\ c # Null THEN revokeObjectURL(s, c) ELSE s

InitPage ==
  /\ component = "PublicFilePage"
  /\ mounted = TRUE
  /\ file = NoFile
  /\ isOpen = FALSE
  /\ token = "s1"
  /\ isPublic = FALSE
  /\ loading = FALSE
  /\ previewUrl = Null
  /\ error = NoError
  /\ currentBlobUrl = Null
  /\ currentFileId = "none"
  /\ abortController = Null
  /\ loadingRef = FALSE
  /\ previewUrlRef = Null
  /\ fetches = <<>>
  /\ created = {}
  /\ revocations = [u \in 1..MaxUrls |-> 0]
  /\ lastRequest = [endpoint |-> "none", authorization |-> NoToken]
  /\ cleanupUrl = NoCleanup
  /\ downloads = <<>>
  /\ depPreviewUrl = Null
  /\ UploadInit

\* setFile(publicFile) after a HEAD response: the preview effect's previous
\* cleanup runs, then the effect, whose cleanup captures the current previewUrl.
PageSetFile(f) ==
  /\ mounted
  /\ LET s1 == PageCleanup(Cur, cleanupUrl)
         s == IF PageSkips(f) THEN s1
              ELSE [setLoading(s1, TRUE, TRUE) EXCEPT
                      !.fetches = Append(@, PageFetch(f)),
                      !.lastRequest = [endpoint |-> "/p/{shareToken}",
                                       authorization |-> NoToken]]
     IN /\ Len(s.fetches) <= MaxFetches
        /\ Commit(s)
  /\ cleanupUrl' = IF PageSkips(f) THEN NoCleanup ELSE previewUrl
  /\ file' = f
  /\ UNCHANGED <<component, mounted, isOpen, token, isPublic, downloads, depPreviewUrl,
                 uvars>>

PageStep(s) ==
  /\ Commit(s)
  /\ UNCHANGED <<component, mounted, file, isOpen, token, isPublic, cleanupUrl, downloads,
                 depPreviewUrl, uvars>>

\* await fetch(fileUrl) resumes with an ok response.
PageResponseOk(r) ==
  /\ fetches[r].phase = "fetch"
  /\ PageStep([Cur EXCEPT !.fetches[r].phase = "blob"])

\* The response is not ok, or fetch or blob() rejects: the catch block only
\* logs, the finally block clears previewLoading.
PageFetchFails(r) ==
  /\ fetches[r].phase \in {"fetch", "blob"}
  /\ PageStep([setLoading(Cur, mounted, FALSE) EXCEPT !.fetches[r].phase = "done"])

\* await response.blob() resumes: createObjectURL, setPreviewUrl, finally.
PageBlobOk(r) ==
  /\ fetches[r].phase = "blob"
  /\ PageStep([setLoading(setPreviewUrl(createObjectURL(Cur, r), mounted, r),
                          mounted, FALSE)
                 EXCEPT !.fetches[r].phase = "done"])

PageUnmount ==
  /\ mounted
  /\ mounted' = FALSE
  /\ Commit(PageCleanup(Cur, cleanupUrl))
  /\ cleanupUrl' = NoCleanup
  /\ UNCHANGED <<component, file, isOpen, token, isPublic, downloads, depPreviewUrl,
                 uvars>>

NextPage ==
  \/ \E f \in Catalog : PageSetFile(f)
  \/ \E r \in 1..Len(fetches) : PageResponseOk(r)
  \/ \E r \in 1..Len(fetches) : PageFetchFails(r)
  \/ \E r \in 1..Len(fetches) : PageBlobOk(r)
  \/ PageUnmount

\* One PublicFilePage instance.
SpecPage == InitPage /\ [][NextPage]_vars

\* C26: the object URL PublicFilePage creates for its inline preview is
\* revoked when the page unmounts or the preview effect is re-run: once the
\* page has unmounted and its fetches have settled, no object URL it created
\* is live.
PageUrlsRevoked ==
  (~mounted /\ InFlight = {}) => LiveUrls = {}

\* ========================================================================
\* Download triggers

\* Number of download handler invocations in a run.
MaxDownloads == 2

\* The handlers passed as onDownload or onFileDownload.
DownloadTriggers ==
  { "MainPage.handleFileDownload", "AdminPage.handleFileDownload",
    "AppShell.handleDownload", "SharedFilesPage.handleDownload",
    "PublicFolderPage.handleTreeFileDownload" }

\* The handlers that return at once when useAuth() holds no token.
TokenCheckers == {"MainPage.handleFileDownload", "AdminPage.handleFileDownload"}

\* The handler of the public folder page: it fetches file.download_url, the
\* presigned URL every file of a shared folder is listed with, without headers.
PublicTriggers == {"PublicFolderPage.handleTreeFileDownload"}

\* The files a handler may be called with.
DownloadFiles(trigger) ==
  IF trigger \in PublicTriggers
  THEN { f \in Catalog : f.download_url # NoUrl }
  ELSE { f \in Catalog : f.id \in {"a", "c"} }

\* An addToast call.
Toast(kind, message) == [kind |-> kind, message |-> message]
NoToast == Toast("none", "")

\* The toast of a handler's catch block: the handlers of MainPage and AdminPage
\* show the message of the error caught, the others a text of their own.
CatchToast(trigger, message) ==
  IF trigger \in TokenCheckers
  THEN Toast("error", "Failed to download \"{original_filename}\": " \o message)
  ELSE IF trigger \in PublicTriggers
  THEN Toast("error", "Failed to download {original_filename}")
  ELSE Toast("error", "Failed to download file")

\* The toast after the blob has been saved.
SuccessToast(trigger) ==
  IF trigger \in TokenCheckers
  THEN Toast("success", "File \"{filename}\" downloaded successfully!")
  ELSE IF trigger \in PublicTriggers
  THEN Toast("success", "{original_filename} downloaded")
  ELSE Toast("success", "Downloaded {original_filename}")

\* What response.text().catch(() => 'Unknown error') gives the handlers of
\* MainPage and AdminPage for a response that is not ok.
ErrorTexts == {"{errorText}", "Unknown error"}

\* The handler up to its first await. The handlers of MainPage and AdminPage
\* return with an error toast when there is no token; AppShell.handleDownload
\* and SharedFilesPage.handleDownload call filesApi.downloadFile, which sends
\* the request with whatever localStorage holds (without a token the header
\* reads "Bearer null"); PublicFolderPage.handleTreeFileDownload fetches the
\* presigned URL.
NewDownload(trigger, f, tok) ==
  IF trigger \in TokenCheckers /\ tok = NoToken
  THEN [ trigger |-> trigger, file |-> f, token |-> tok, pc |-> "done",
         requests |-> <<>>,
         toasts |-> << Toast("error", "Authentication required for file download") >> ]
  ELSE IF trigger \in PublicTriggers
  THEN [ trigger |-> trigger, file |-> f, token |-> tok, pc |-> "fetch",
         requests |-> << [endpoint |-> f.download_url, authorization |-> NoToken] >>,
         toasts |-> <<>> ]
  ELSE [ trigger |-> trigger, file |-> f, token |-> tok, pc |-> "fetch",
         requests |-> << [endpoint |-> "/files/{id}/download",
                          authorization |-> tok] >>,
         toasts |-> <<>> ]

InitDownload ==
  /\ PreviewInit
  /\ component = "PreviewModal"
  /\ token = NoToken
  /\ UploadInit

\* The user clicks download on file f while the stored credential is tok.
StartDownload(trigger, f, tok) ==
  /\ Len(downloads) < MaxDownloads
  /\ downloads' = Append(downloads, NewDownload(trigger, f, tok))
  /\ UNCHANGED <<component, mounted, file, isOpen, token, isPublic, loading, previewUrl,
                 error, currentBlobUrl, currentFileId, abortController, loadingRef,
                 previewUrlRef, fetches, created, revocations, lastRequest,
                 cleanupUrl, depPreviewUrl, uvars>>

DownloadStep(k, pc, toast) ==
  /\ downloads' = [downloads EXCEPT ![k].pc = pc,
                                    ![k].toasts = IF toast = NoToast THEN @
                                                  ELSE Append(@, toast)]
  /\ UNCHANGED <<component, mounted, file, isOpen, token, isPublic, loading, previewUrl,
                 error, currentBlobUrl, currentFileId, abortController, loadingRef,
                 previewUrlRef, fetches, created, revocations, lastRequest,
                 cleanupUrl, depPreviewUrl, uvars>>

\* The response is ok: the handler goes on to await response.blob().
DownloadResponseOk(k) ==
  /\ downloads[k].pc = "fetch"
  /\ DownloadStep(k, "blob", NoToast)

\* The blob arrives: the handler saves it through a temporary link and toasts.
DownloadBlobOk(k) ==
  /\ downloads[k].pc = "blob"
  /\ DownloadStep(k, "done", SuccessToast(downloads[k].trigger))

\* The response is not ok. The handlers of MainPage and AdminPage first await
\* response.text().catch(() => 'Unknown error') for the message they throw; the
\* others throw at once, and the catch block toasts.
DownloadResponseNotOk(k) ==
  /\ downloads[k].pc = "fetch"
  /\ IF downloads[k].trigger \in TokenCheckers
     THEN DownloadStep(k, "text", NoToast)
     ELSE DownloadStep(k, "done", CatchToast(downloads[k].trigger, "Download failed"))

\* The text of the error response has been read, or could not be: the handler
\* throws and the catch block toasts.
DownloadErrorText(k, errorText) ==
  /\ downloads[k].pc = "text"
  /\ DownloadStep(k, "done",
                  CatchToast(downloads[k].trigger,
                             "Download failed: {status} {statusText} - " \o errorText))

\* fetch or blob() rejects: the catch block toasts.
DownloadFails(k) ==
  /\ downloads[k].pc \in {"fetch", "blob"}
  /\ DownloadStep(k, "done", CatchToast(downloads[k].trigger, "Failed to fetch"))

NextDownload ==
  \/ \E trigger \in DownloadTriggers, tok \in {NoToken, "jwt"} :
       \E f \in DownloadFiles(trigger) : StartDownload(trigger, f, tok)
  \/ \E k \in 1..Len(downloads) : DownloadResponseOk(k)
  \/ \E k \in 1..Len(downloads) : DownloadResponseNotOk(k)
  \/ \E k \in 1..Len(downloads) : \E errorText \in ErrorTexts : DownloadErrorText(k, errorText)
  \/ \E k \in 1..Len(downloads) : DownloadBlobOk(k)
  \/ \E k \in 1..Len(downloads) : DownloadFails(k)

\* The download handlers of the pages.
SpecDownload == InitDownload /\ [][NextDownload]_vars

\* C22: every download trigger, invoked for a non-public file (one without an
\* active share link, on a page other than the public folder page, whose files
\* are public through their folder) while no bearer credential is available,
\* issues no network request and reports exactly one error.
DownloadNeedsCredential ==
  \A k \in 1..Len(downloads) :
    (downloads[k].token = NoToken /\ ~hasPublicToken(downloads[k].file)
       /\ downloads[k].trigger \notin PublicTriggers) =>
       /\ downloads[k].requests = <<>>
       /\ downloads[k].pc = "done"
       /\ Len(downloads[k].toasts) = 1 /\ downloads[k].toasts[1].kind = "error"

\* ========================================================================
\* Further properties of the preview modals

\* C29: no preview fetch addressed to /p/{shareToken} carries the bearer
\* credential in an Authorization header, whatever token, isPublic and the
\* file's share link are (checked under SpecResolve, at every fetch issued).
NoBearerOnPublicEndpoint ==
  [][ (IssuesFetch /\ lastRequest'.endpoint = "/p/{shareToken}") =>
        lastRequest'.authorization = NoToken ]_vars

\* PreviewModal, holding a bearer token, fetched a shared file from /p/ without
\* an Authorization header.
WitnessPublicEndpointNoBearer ==
  /\ component = "PreviewModal" /\ token = "jwt"
  /\ fetches # <<>> /\ hasPublicToken(file)
  /\ lastRequest = [endpoint |-> "/p/{shareToken}", authorization |-> NoToken]

\* C24: while a mounted modal is closed (file null or isOpen false), previewUrl
\* is null, error is null, loading is false, currentFileId is null, no object
\* URL is held, and every fetch still in flight has been aborted (checked under
\* Spec, so from every state the modal can be closed in).
ClosedIsReset ==
  (mounted /\ (file = NoFile \/ ~isOpen)) =>
     /\ previewUrl = Null /\ error = NoError /\ ~loading
     /\ currentFileId = "none" /\ currentBlobUrl = Null
     /\ \A r \in InFlight : fetches[r].aborted

\* The modal was closed while a fetch was in flight: the fetch is aborted and
\* the modal is reset.
WitnessClosedWhileLoading ==
  \E r \in 1..Len(fetches) :
    /\ mounted /\ file = NoFile /\ ~isOpen
    /\ fetches[r].phase = "fetch" /\ fetches[r].aborted
    /\ ~loading /\ previewUrl = Null

\* C28: whenever PreviewModal is open, not loading, without error, and its
\* previewUrl state is non-null, that URL has not been revoked and was created
\* from the response fetched for the currently selected file id.
ShownUrlIsLive ==
  ( /\ component = "PreviewModal"
    /\ mounted /\ isOpen /\ file # NoFile
    /\ ~loading /\ error = NoError /\ previewUrl # Null )
  => /\ previewUrl \in LiveUrls
     /\ fetches[previewUrl].fileId = file.id

\* A step in which an awaited fetch or blob() of the modal resumes.
ResumptionStep == \E r \in 1..Len(fetches) : fetches'[r].phase # fetches[r].phase

\* A render of the modal that its own change of previewUrl brought about: the
\* props are as they were and the preview effect runs again.
SelfRender ==
  /\ file' = file /\ isOpen' = isOpen
  /\ depPreviewUrl # previewUrl /\ depPreviewUrl' = previewUrl

\* C25: in PublicFolderPreviewModal a failed preview is terminal: the step in
\* which a fetch fails leaves the modal in the error state, not loading; no
\* later resumption changes that; and the render that follows the modal's own
\* state change issues no fetch and keeps the error, so that only a change of
\* the file or isOpen prop starts a new fetch.
FolderFailureIsTerminal ==
  [][ (component = "PublicFolderPreviewModal" /\ mounted /\ ~Closed) =>
        /\ ResumptionStep =>
             /\ (\E r \in 1..Len(fetches) :
                   /\ ~fetches[r].aborted
                   /\ fetches[r].phase # "done" /\ fetches'[r].phase = "done"
                   /\ r \notin created') =>
                  (error' # NoError /\ ~loading')
             /\ error # NoError => error' = error
        /\ SelfRender => (~IssuesFetch /\ error' = error) ]_vars

\* The state of the session machine that PreviewModal's refs stand for.
AbsState ==
  IF currentFileId = "none" THEN "Idle"
  ELSE IF previewUrlRef # Null THEN "Resolved"
  ELSE IF loadingRef THEN "Resolving"
  ELSE "Idle"

AbsTransitions ==
  { <<"Idle", "Resolving">>, <<"Resolving", "Resolved">>, <<"Resolving", "Idle">>,
    <<"Resolved", "Idle">>, <<"Resolving", "Resolving">>, <<"Resolved", "Resolving">>,
    <<"Idle", "Idle">> }

\* C23: PreviewModal's refs refine the machine Idle -> Resolving(id) ->
\* Resolved(id, url) -> Idle: in Resolving(id) a non-aborted fetch for id is in
\* flight; in Resolved(id, url) the URL is live and was created for id; the
\* refs move along the machine's transitions only; and a step to another id
\* leaves every earlier fetch aborted and every earlier URL revoked.
RefsRefineSessionMachine ==
  /\ []( (component = "PreviewModal" /\ mounted) =>
           /\ AbsState = "Resolving" =>
                \E r \in InFlight : fetches[r].fileId = currentFileId /\ ~fetches[r].aborted
           /\ AbsState = "Resolved" =>
                /\ previewUrlRef \in LiveUrls
                /\ fetches[previewUrlRef].fileId = currentFileId )
  /\ [][ (component = "PreviewModal" /\ mounted /\ mounted') =>
           /\ <<AbsState, AbsState'>> \in AbsTransitions
           /\ (AbsState' = AbsState /\ AbsState # "Idle") =>
                 (currentFileId' # currentFileId \/ AbsState = "Resolving")
           /\ (currentFileId' # currentFileId /\ currentFileId # "none") =>
                 /\ \A r \in InFlight : fetches'[r].aborted
                 /\ \A u \in LiveUrls : revocations'[u] = 1 ]_vars

\* ------------------------------------------------------------------------
\* PreviewModal under a network that answers

\* Fetch r settles (response, rejection, body) or its timer fires.
SettleFetch(r) ==
  \/ ResponseOk(r) \/ ResponseNotOk(r) \/ FetchReject(r)
  \/ BlobOk(r) \/ BlobReject(r)
  \/ TimerFires(r) \/ LateSettle(r)

\* Every issued fetch eventually settles or times out; nothing is assumed of
\* the parent's prop changes.
FairNetwork == \A r \in 1..MaxUrls : WF_vars(r <= Len(fetches) /\ SettleFetch(r))

InitFair == Init /\ component = "PreviewModal"

\* The steps of a PreviewModal instance: those of Next but Render, since
\* previewUrl is no dependency of PreviewModal's effect.
NextFair ==
  \/ \E f \in Catalog \cup {NoFile}, o \in BOOLEAN, t \in {NoToken, "jwt"}, ip \in BOOLEAN :
       SetProps(f, o, t, ip)
  \/ NewFileObject
  \/ Unmount
  \/ OnMediaError
  \/ \E r \in 1..Len(fetches) : ResponseOk(r)
  \/ \E r \in 1..Len(fetches) : ResponseNotOk(r)
  \/ \E r \in 1..Len(fetches) : FetchReject(r)
  \/ \E r \in 1..Len(fetches) : BlobOk(r)
  \/ \E r \in 1..Len(fetches) : BlobReject(r)
  \/ \E r \in 1..Len(fetches) : TimerFires(r)
  \/ \E r \in 1..Len(fetches) : LateSettle(r)

\* One PreviewModal instance, with a network that answers.
SpecFair == InitFair /\ [][NextFair]_vars /\ FairNetwork

\* C27: whenever PreviewModal is open with a file, loading eventually becomes
\* false (or the modal unmounts), whatever prop changes occur, given that every
\* issued fetch eventually settles or its timer fires.
LoadingEventuallyEnds ==
  (component = "PreviewModal" /\ mounted /\ isOpen /\ file # NoFile)
     ~> (~loading \/ ~mounted)

====
